---- MODULE Spec2Model ----
(***************************************************************************)
(* Model of the term-resolution pipeline of main.py: the request handler   *)
(* fetch_product (validation, region lookup, parsing, the small in-memory  *)
(* path and the streaming generator generate_response), the per-term       *)
(* worker process_term, and the parser parse_search_terms.                 *)
(*                                                                         *)
(* The source fixes MAX_WORKERS = 5, BATCH_SIZE = 20 and a streaming       *)
(* threshold of 30 terms.  The scheduler is modelled for scaled values of  *)
(* these three parameters (MAX_WORKERS, BATCH_SIZE and STREAM_THRESHOLD    *)
(* below); the source's own batch size is kept in SRC_BATCH_SIZE and is    *)
(* used where only arithmetic is involved.                                 *)
(***************************************************************************)
EXTENDS Integers, Sequences, FiniteSets, TLC

\* ------------------------------------------------------------------ bounds
\* Scaled scheduler parameters (source: 5, 20, 30).
MAX_WORKERS == 2
BATCH_SIZE == 3
STREAM_THRESHOLD == 3
\* The largest number of records one catalog response holds.
MaxRecords == 2
\* The largest number of pieces (characters or coded tokens) of a parser input.
MaxPieces == 4
\* The largest number of items of a response text.
MaxItems == 4
\* The largest price amount.
MaxAmount == 8

\* A request carries up to one term more than the streaming threshold.
MaxTerms == STREAM_THRESHOLD + 1

\* ------------------------------------------------------- program constants
SRC_BATCH_SIZE == 20
\* parse_search_terms splits on whitespace only above this length.
LONG_INPUT == 50

\* ------------------------------------------------------------------- state
VARIABLES
    pc,               \* position of the request handler
    limit,            \* data.get('limit', 'all')
    region_info,      \* regionId held by the dict get_region_info returned
    individual_terms, \* the parsed, deduplicated term list
    tstate,           \* per term: idle / queued / running / finished / collected
    cause,            \* per uncollected future: what its fetch and resolution ran into
    batch_workers,    \* max_workers of the executor in use
    pools,            \* executors created by this request
    batches,          \* the batch_terms slices taken so far
    stream,           \* tokens yielded by generate_response so far
    first_product,
    processed_count,
    batch_count,
    total_batches,
    batch_total_found,
    total_found,
    batch_products,
    products,
    not_found_terms,
    response,         \* the document returned through jsonify
    future_results,   \* the terms whose Future in the futures dict holds a return value
    search_input,     \* parse_search_terms: its argument
    parsed,           \* parse_search_terms: << >>, then its return value
    fetch_reply,      \* fetch_product_data: what requests.get met
    fetched,          \* fetch_product_data: << >>, then its return value
    resolved,         \* process_term: << >>, then its limit and return value
    price_info,       \* product["price"] of the record process_term reads
    priced            \* process_term: << >>, then the price fields it built

vars == << pc, limit, region_info, individual_terms, tstate, cause, batch_workers,
           pools, batches, stream, first_product, processed_count, batch_count,
           total_batches, batch_total_found, total_found, batch_products,
           products, not_found_terms, response, future_results,
           search_input, parsed, fetch_reply, fetched, resolved, price_info, priced >>

reqVars == << pc, limit, region_info, individual_terms, tstate, cause, batch_workers,
              pools, batches, stream, first_product, processed_count, batch_count,
              total_batches, batch_total_found, total_found, batch_products,
              products, not_found_terms, response, future_results >>

parseVars == << search_input, parsed >>

fetchVars == << fetch_reply, fetched >>

resolveVars == << resolved, price_info, priced >>

None == "None"

Min(a, b) == IF a <= b THEN a ELSE b

\* Python's s[a:b] for 0 <= a <= b.
Slice(s, a, b) == SubSeq(s, a + 1, Min(b, Len(s)))

Range(s) == {s[i] : i \in DOMAIN s}

\* ------------------------------------------------------- inputs of a request
\* The limits a request may carry: the default 'all', or an integer.
Limits == {"all", "0", "1"}

IntOf(lim) == IF lim = "0" THEN 0 ELSE 1

\* What the account endpoint may answer to get_region_info.
RegionReplies == {"ok", "no_region", "status", "timeout", "transport"}

\* What one term's fetch and resolution can run into: the fetch fails
\* (status, timeout, transport), the fragment is empty, it holds n records,
\* resolving it raises inside process_term (resolve_error), or an exception
\* leaves process_term (raise).
NoCause == [kind |-> "none", n |-> 0]
FetchFailures == {"status", "timeout", "transport"}
FailureKinds == FetchFailures \cup {"resolve_error", "raise"}
Causes ==
    {[kind |-> k, n |-> 0] : k \in FetchFailures \cup {"empty"}}
    \cup {[kind |-> k, n |-> 1] : k \in {"resolve_error", "raise"}}
    \cup {[kind |-> "records", n |-> k] : k \in 1..MaxRecords}

\* --------------------------------------------------------- get_region_info
get_region_info(reply) ==
    CASE reply = "ok" -> "id"
      [] reply = "no_region" -> None
      [] OTHER -> "unknown"

\* ------------------------------------------------------ fetch_product_data
\* Faulty variant: a failed fetch returns a one-record placeholder fragment.
fetch_product_data_Placeholder(c) ==
    IF c.kind \in FetchFailures
    THEN [isNone |-> FALSE, n |-> 1]
    ELSE [isNone |-> FALSE, n |-> c.n]

\* The fetch's return value: None, or the number of records of the fragment.
fetch_product_data(c) ==
    IF c.kind \in FetchFailures
    THEN [isNone |-> TRUE, n |-> 0]
    ELSE [isNone |-> FALSE, n |-> c.n]

\* ------------------------------------------------------------ process_term
NotFoundInfo(term, msg) ==
    [found |-> FALSE, searchTerm |-> term, productKey |-> 0, msg |-> msg]

FoundInfo(term, key) ==
    [found |-> TRUE, searchTerm |-> term, productKey |-> key, msg |-> ""]

\* product_keys: how many keys of the fragment survive the limit.
product_keys(lim, n) ==
    IF lim # "all" THEN Min(IntOf(lim), n) ELSE Min(1, n)

process_term(term, lim, c) ==
    LET raw_data == fetch_product_data(c) IN
    CASE c.kind = "raise" ->
           [raised |-> TRUE, info |-> NotFoundInfo(term, "raised"), total |-> 0]
      [] c.kind = "resolve_error" ->
           [raised |-> FALSE, info |-> NotFoundInfo(term, "error"), total |-> 0]
      [] OTHER ->
           IF raw_data.isNone
           THEN [raised |-> FALSE, info |-> NotFoundInfo(term, "typo"), total |-> 0]
           ELSE IF raw_data.n > 0 /\ product_keys(lim, raw_data.n) > 0
           THEN [raised |-> FALSE, info |-> FoundInfo(term, 1), total |-> raw_data.n]
           ELSE [raised |-> FALSE, info |-> NotFoundInfo(term, "typo"), total |-> 0]

\* ------------------------------------------------------ parse_search_terms
\* A string is a sequence of one-character strings.
Digits == {"0", "1", "2", "3", "4", "5", "6", "7", "8", "9"}
Whitespace == {" ", "\n"}
Letters == {"A", "B", "E", "x"}
WordChars == Digits \cup Letters
\* The characters the explored inputs are built from.
Alphabet == {"1", "E", "A", "x", " ", "\n", ","}

IsDigit(c) == c \in Digits
IsSpace(c) == c \in Whitespace
IsWord(c) == c \in WordChars

\* 'EA' in s
ContainsEA(s) == \E i \in 1..(Len(s) - 1) : s[i] = "E" /\ s[i + 1] = "A"

\* The last position of the maximal run of digits that starts at i.
RECURSIVE DigitRunEnd(_, _)
DigitRunEnd(s, i) ==
    IF i + 1 <= Len(s) /\ IsDigit(s[i + 1]) THEN DigitRunEnd(s, i + 1) ELSE i

\* \d+EA matched at position i: the position of its last character, or 0.
MatchCode(s, i) ==
    IF i <= Len(s) /\ IsDigit(s[i])
    THEN LET d == DigitRunEnd(s, i) IN
         IF d + 2 <= Len(s) /\ s[d + 1] = "E" /\ s[d + 2] = "A" THEN d + 2 ELSE 0
    ELSE 0

\* re.sub(r'(\d+EA)', r'\1 ', s), scanning from position i.
SubCodes_NoSpace(s, i) == SubSeq(s, i, Len(s))

RECURSIVE SubCodes(_, _)
SubCodes(s, i) ==
    IF i > Len(s) THEN << >>
    ELSE LET e == MatchCode(s, i) IN
         IF e > 0
         THEN SubSeq(s, i, e) \o << " " >> \o SubCodes(s, e + 1)
         ELSE << s[i] >> \o SubCodes(s, i + 1)

\* \b at the gap before position i (1 .. Len(s) + 1).
WordBoundary(s, i) ==
    LET before == i - 1 >= 1 /\ IsWord(s[i - 1])
        after == i <= Len(s) /\ IsWord(s[i])
    IN before # after

\* re.findall(r'\b\d+EA\b', s), scanning from position i.
RECURSIVE FindCodes(_, _)
FindCodes(s, i) ==
    IF i > Len(s) THEN << >>
    ELSE LET e == MatchCode(s, i) IN
         IF e > 0 /\ WordBoundary(s, i) /\ WordBoundary(s, e + 1)
         THEN << SubSeq(s, i, e) >> \o FindCodes(s, e + 1)
         ELSE FindCodes(s, i + 1)

\* Faulty variant: a space separates pieces as well.
RECURSIVE SplitSeparators_AlsoSpaces(_, _, _)
SplitSeparators_AlsoSpaces(s, i, cur) ==
    IF i > Len(s) THEN << cur >>
    ELSE IF s[i] \in {",", "\n", " "}
    THEN << cur >> \o SplitSeparators_AlsoSpaces(s, i + 1, << >>)
    ELSE SplitSeparators_AlsoSpaces(s, i + 1, Append(cur, s[i]))

\* re.split(r'[,\n]', s): cur is the piece being read, from position i.
RECURSIVE SplitSeparators(_, _, _)
SplitSeparators(s, i, cur) ==
    IF i > Len(s) THEN << cur >>
    ELSE IF s[i] \in {",", "\n"}
    THEN << cur >> \o SplitSeparators(s, i + 1, << >>)
    ELSE SplitSeparators(s, i + 1, Append(cur, s[i]))

\* s.split(): the maximal runs of non-whitespace.
RECURSIVE SplitWhitespace(_, _, _)
SplitWhitespace(s, i, cur) ==
    IF i > Len(s) THEN (IF cur = << >> THEN << >> ELSE << cur >>)
    ELSE IF IsSpace(s[i])
    THEN (IF cur = << >> THEN << >> ELSE << cur >>) \o SplitWhitespace(s, i + 1, << >>)
    ELSE SplitWhitespace(s, i + 1, Append(cur, s[i]))

RECURSIVE Strip_LeadingOnly(_)
Strip_LeadingOnly(s) ==
  IF s # << >> /\ IsSpace(Head(s)) THEN Strip_LeadingOnly(Tail(s)) ELSE s

\* s.strip()
RECURSIVE Strip(_)
Strip(s) ==
    IF s = << >> THEN s
    ELSE IF IsSpace(s[1]) THEN Strip(Tail(s))
    ELSE IF IsSpace(s[Len(s)]) THEN Strip(SubSeq(s, 1, Len(s) - 1))
    ELSE s

\* [term.strip() for term in terms if term.strip()]
RECURSIVE CleanTerms(_)
CleanTerms(terms) ==
    IF terms = << >> THEN << >>
    ELSE LET t == Strip(Head(terms)) IN
         IF t = << >> THEN CleanTerms(Tail(terms))
         ELSE << t >> \o CleanTerms(Tail(terms))

\* Faulty variant: every candidate is kept, repeated or not.
RemoveDuplicates_KeepAll(terms, unique) == unique \o terms

\* The loop of lines 174-179: unique holds the terms kept so far.
RECURSIVE RemoveDuplicates(_, _)
RemoveDuplicates(terms, unique) ==
    IF terms = << >> THEN unique
    ELSE IF Head(terms) \in Range(unique)
    THEN RemoveDuplicates(Tail(terms), unique)
    ELSE RemoveDuplicates(Tail(terms), Append(unique, Head(terms)))

CandidateTerms_SplitAtThreshold(s) ==
  IF \E i \in DOMAIN s : s[i] \in {",", "\n"} THEN SplitSeparators(s, 1, << >>)
  ELSE IF FindCodes(s, 1) # << >> THEN FindCodes(s, 1)
  ELSE IF Len(s) >= LONG_INPUT /\ (\E i \in DOMAIN s : s[i] = " ")
       THEN SplitWhitespace(s, 1, << >>)
  ELSE << s >>

\* Lines 148-165: the candidate terms of the (already rewritten) input.
CandidateTerms(s) ==
    IF \E i \in DOMAIN s : s[i] \in {",", "\n"}
    THEN SplitSeparators(s, 1, << >>)
    ELSE LET ea_codes == FindCodes(s, 1) IN
         IF ea_codes # << >> THEN ea_codes
         ELSE IF Len(s) > LONG_INPUT /\ (\E i \in DOMAIN s : s[i] = " ")
         THEN SplitWhitespace(s, 1, << >>)
         ELSE << s >>

parse_search_terms(input) ==
    LET has_ea == ContainsEA(input)
        rewritten == IF has_ea THEN SubCodes(input, 1) ELSE input
        found_codes == (~\E i \in DOMAIN rewritten : rewritten[i] \in {",", "\n"})
                       /\ FindCodes(rewritten, 1) # << >>
        terms == CleanTerms(CandidateTerms(rewritten))
        unique_terms == RemoveDuplicates(terms, << >>)
    IN [terms |-> terms,
        unique_terms |-> unique_terms,
        duplicate_count |-> Len(terms) - Len(unique_terms),
        contains_ea_codes |-> has_ea \/ found_codes]

\* The inputs the parser is run on: every concatenation of at most MaxPieces
\* pieces, a piece being one character or the coded token 1EA, alone or
\* behind a prefix that makes the input longer than LONG_INPUT, or behind a
\* shorter prefix that puts its length on either side of LONG_INPUT.
Pieces == {<< c >> : c \in Alphabet} \cup {<< "1", "E", "A" >>}

RECURSIVE Concat(_)
Concat(ps) == IF ps = << >> THEN << >> ELSE Head(ps) \o Concat(Tail(ps))

ShortInputs == {Concat(ps) : ps \in UNION {[1..k -> Pieces] : k \in 0..MaxPieces}}

LongPrefix == [i \in 1..LONG_INPUT |-> "x"]

NearPrefix == [i \in 1..(LONG_INPUT - 2) |-> "x"]

ParserInputs ==
  ShortInputs \cup {LongPrefix \o s : s \in ShortInputs}
              \cup {NearPrefix \o s : s \in ShortInputs}

\* ------------------------------------------------ the streamed JSON tokens
Tok(k, key, val) == [k |-> k, key |-> key, val |-> val]
LBRACE == Tok("LBRACE", "", "")
RBRACE == Tok("RBRACE", "", "")
LBRACK == Tok("LBRACK", "", "")
RBRACK == Tok("RBRACK", "", "")
COMMA == Tok("COMMA", "", "")
Member(key, val) == Tok("MEM", key, val)
Key(key) == Tok("KEY", key, "")
Obj(info) == Tok("OBJ", "", info)

\* Faulty variant: the opening fragment already announces completion.
OpeningFragment_Completed(region, terms, nbatches) ==
    << LBRACE,
       Member("region_name", region), COMMA,
       Member("region_info", region), COMMA,
       Member("search_term", "echo"), COMMA,
       Member("parsed_terms", terms), COMMA,
       Member("duplicate_count", "echo"), COMMA,
       Member("contains_ea_codes", "echo"), COMMA,
       Member("status", "completed"), COMMA,
       Member("total_terms", Len(terms)), COMMA,
       Member("total_batches", nbatches), COMMA,
       Key("products"), LBRACK >>

\* The first yield of generate_response.  The fields that only echo the
\* request (the raw input and the parser's duplicate metadata) hold "echo".
OpeningFragment(region, terms, nbatches) ==
    << LBRACE,
       Member("region_name", region), COMMA,
       Member("region_info", region), COMMA,
       Member("search_term", "echo"), COMMA,
       Member("parsed_terms", terms), COMMA,
       Member("duplicate_count", "echo"), COMMA,
       Member("contains_ea_codes", "echo"), COMMA,
       Member("status", "processing"), COMMA,
       Member("total_terms", Len(terms)), COMMA,
       Member("total_batches", nbatches), COMMA,
       Key("products"), LBRACK >>

\* Faulty variant: the comma is written after every product.
ElementFragment_TrailingComma(first, info) == << Obj(info), COMMA >>

\* Faulty variant: the comma is written before the first product too.
ElementFragment_AlwaysComma(first, info) == << COMMA, Obj(info) >>

\* The yields for one outcome: a comma unless it is the first product.
ElementFragment(first, info) ==
    IF first THEN << Obj(info) >> ELSE << COMMA, Obj(info) >>

\* The last yield of generate_response.
ClosingFragment(found, processed) ==
    << RBRACK, COMMA,
       Member("total_found", found), COMMA,
       Member("total_processed", processed), COMMA,
       Member("status", "completed"),
       RBRACE >>

\* ------------------------------------------------------------- scheduling
\* Faulty variant: the threshold itself already streams.
UseStreaming_Inclusive(n) == n >= STREAM_THRESHOLD

UseStreaming(n) == n > STREAM_THRESHOLD

\* Faulty variant: the division rounds down.
TotalBatches_Floor(n, size) == n \div size

TotalBatches(n, size) == (n + size - 1) \div size

\* Faulty variant: a slice starts one term early and repeats a term.
BatchTerms_Overlap(terms, i) ==
    Slice(terms, IF i > 0 THEN i - 1 ELSE 0, i + BATCH_SIZE)

BatchTerms(terms, i) == Slice(terms, i, i + BATCH_SIZE)

\* Faulty variant: one worker per term, without the cap.
BatchWorkers_Uncapped(n) == n

BatchWorkers(n) == Min(MAX_WORKERS, n)

\* Faulty variant: only found entries count as a product_info.
HasInfo_FoundOnly(info) == info.found

\* `if product_info:` - a non-empty dict is truthy.
HasInfo(info) == TRUE

Terms == DOMAIN tstate

InState(s) == {t \in Terms : tstate[t] = s}

\* The futures of the executor in use.
Futures ==
    IF pc = "collect" THEN Range(batches[Len(batches)])
    ELSE IF pc = "small_collect" THEN Range(individual_terms)
    ELSE {}

\* Faulty variant: the loop over as_completed is left after its first future.
Drained_AfterFirst == \E t \in Futures : tstate[t] = "collected"

\* Faulty variant: the executor is left once every work item was taken,
\* without waiting for the workers.
Drained_NoWait ==
    /\ \A t \in Futures : tstate[t] # "queued"
    /\ \E t \in Futures : tstate[t] = "collected"

\* as_completed has yielded every future and the executor has shut down.
Drained == \A t \in Futures : tstate[t] = "collected"

\* The work queue of the executor is first-in first-out.
NextQueued(t) == tstate[t] = "queued" /\ \A u \in InState("queued") : t <= u

\* ----------------------------------------- fetch_product_data on the text
\* The response text is a sequence of items: a structural brace, or a piece
\* of text that holds no structural brace.
Item(k, v) == [k |-> k, v |-> v]
LB == Item("{", "")
RB == Item("}", "")
\* "productId": "<id>"
PID(id) == Item("productId", id)
\* "productId": null
PIDNULL == Item("productId", None)
\* "retailerProductId": "<id>"
RID(id) == Item("retailerProductId", id)
\* "name": "a}b", a string value that holds a closing brace
BRACESTR == Item("name", "a}b")
\* text that no JSON document can hold at this place
BAD == Item("bad", "")
\* arrays nested deeper than the interpreter's recursion limit
DEEP == Item("deep", "")

\* Identifiers: p1 is plain; as a pattern a+b does not match the text a+b;
\* a(b is not a pattern at all.
PlainIds == {"p1"}
QuantifierIds == {"a+b"}
UnbalancedParenIds == {"a(b"}
ProductIds == PlainIds \cup QuantifierIds \cup UnbalancedParenIds
RetailerIds == {"r1"}

Items ==
    {LB, RB, PIDNULL, BRACESTR, BAD, DEEP}
    \cup {PID(id) : id \in ProductIds} \cup {RID(id) : id \in RetailerIds}

Texts == UNION {[1..n -> Items] : n \in 0..MaxItems}

\* What requests.get met: a 200 reply with its text, another status, a
\* timeout, or another exception of the transport.
NoReply == [kind |-> "none", text |-> << >>]
Replies ==
    {[kind |-> "ok", text |-> t] : t \in Texts}
    \cup {[kind |-> k, text |-> << >>] : k \in {"status", "timeout", "error"}}

\* The term searched for.
SearchTerm == "term"

\* A key a record does not have (null is None).
Absent == "Absent"

\* "retailer_" + id, and back.
RetailerKey(id) == "retailer_" \o id
IsRetailerKey(p) == \E r \in RetailerIds : RetailerKey(r) = p
\* prod_id[9:] if prod_id.startswith("retailer_") else prod_id
CleanId(p) ==
    IF IsRetailerKey(p) THEN CHOOSE r \in RetailerIds : RetailerKey(r) = p ELSE p

\* Line 214: '"productId"' in text or '"retailerProductId"' in text.
HasIdText(text) ==
    \E i \in DOMAIN text : text[i].k \in {"productId", "retailerProductId"}

\* re.finditer(r'"<key>"\s*:\s*"([^"]+)"', text): the quoted values, in order.
FindIds(text, key) ==
    LET hits == SelectSeq(text, LAMBDA it : it.k = key /\ it.v # None)
    IN [i \in DOMAIN hits |-> hits[i].v]

\* Lines 227-236.
product_ids(text) ==
    LET pids == FindIds(text, "productId")
        rids == FindIds(text, "retailerProductId")
    IN IF pids # << >> THEN pids
       ELSE [i \in DOMAIN rids |-> RetailerKey(rids[i])]

\* Lines 241-242: re.search of the pattern built from the identifier, which
\* is not escaped. The pattern may be rejected, may match nowhere, or
\* matches first at the identifier's first occurrence.
SearchId(text, prod_id) ==
    LET id == CleanId(prod_id)
        key == IF IsRetailerKey(prod_id) THEN "retailerProductId" ELSE "productId"
        at == {i \in DOMAIN text : text[i] = Item(key, id)}
    IN IF id \in UnbalancedParenIds THEN [error |-> TRUE, pos |-> 0]
       ELSE IF id \in QuantifierIds \/ at = {} THEN [error |-> FALSE, pos |-> 0]
       ELSE [error |-> FALSE, pos |-> CHOOSE i \in at : \A j \in at : i <= j]

\* Line 246: text.rfind("{", 0, start); 0 stands for Python's -1.
ObjStart(text, pos) ==
    LET opens == {i \in 1..(pos - 1) : text[i] = LB}
    IN IF opens = {} THEN 0 ELSE CHOOSE i \in opens : \A j \in opens : j <= i

\* Lines 250-258: every brace character counts, also one inside a string. The
\* result is the item at which the count reaches zero, 0 if it never does.
RECURSIVE ObjEnd(_, _, _)
ObjEnd(text, i, brace_count) ==
    IF brace_count = 0 THEN i - 1
    ELSE IF i > Len(text) THEN 0
    ELSE IF text[i] = LB THEN ObjEnd(text, i + 1, brace_count + 1)
    ELSE IF text[i] \in {RB, BRACESTR} THEN ObjEnd(text, i + 1, brace_count - 1)
    ELSE ObjEnd(text, i + 1, brace_count)

\* json.loads on a fragment cut by ObjEnd: the decoder reads from the left and
\* fails at the first text it cannot take; a fragment cut at a brace inside a
\* string is short of a closing quote or of a closing brace at its end.
json_loads(product_json) ==
    LET stops == {i \in DOMAIN product_json : product_json[i] \in {BAD, DEEP}}
        first == CHOOSE i \in stops : \A j \in stops : i <= j
    IN IF stops # {}
       THEN IF product_json[first] = DEEP THEN "RecursionError" ELSE "JSONDecodeError"
       ELSE IF \E i \in DOMAIN product_json : product_json[i] = BRACESTR
       THEN "JSONDecodeError"
       ELSE "ok"

\* Nesting depth of item i inside a well-formed fragment.
Depth(product_json, i) ==
    Cardinality({j \in 1..i : product_json[j] = LB})
    - Cardinality({j \in 1..(i - 1) : product_json[j] = RB})

\* dict.get(key) of the decoded fragment: the last member of that key written
\* directly in the outer object.
TopMember(product_json, key) ==
    LET at == {i \in DOMAIN product_json :
                 product_json[i].k = key /\ Depth(product_json, i) = 1}
    IN IF at = {} THEN Absent
       ELSE product_json[CHOOSE i \in at : \A j \in at : j <= i].v

ProductData(product_json) ==
    [productId |-> TopMember(product_json, "productId"),
     retailerProductId |-> TopMember(product_json, "retailerProductId"),
     name |-> Absent,
     available |-> Absent]

\* re.search(r'"<key>"\s*:\s*"([^"]+)"', product_json): None without a match.
FirstQuoted(product_json, key, whole) ==
    LET at == {i \in DOMAIN product_json :
                 /\ product_json[i].k = key
                 /\ product_json[i].v # None
                 /\ (i < Len(product_json) \/ whole)}
    IN IF at = {} THEN None
       ELSE product_json[CHOOSE i \in at : \A j \in at : i <= j].v

\* Lines 308-363. A fragment that ends at a brace inside a string does not
\* hold that string's closing quote.
extract_product_fields(product_json, product_id) ==
    LET whole == product_json[Len(product_json)] # BRACESTR
    IN [productId |-> CleanId(product_id),
        retailerProductId |-> FirstQuoted(product_json, "retailerProductId", TRUE),
        name |-> FirstQuoted(product_json, "name", whole),
        available |-> "True"]

\* result["entities"]["product"][key] = rec; a dict keeps insertion order.
DictSet(d, key, rec) ==
    IF \E i \in DOMAIN d : d[i].key = key
    THEN [i \in DOMAIN d |-> IF d[i].key = key THEN [key |-> key, rec |-> rec] ELSE d[i]]
    ELSE Append(d, [key |-> key, rec |-> rec])

Attempt(prod_id, strategy, outcome) ==
    [id |-> prod_id, strategy |-> strategy, outcome |-> outcome]

Going(result, log) == [exc |-> "none", result |-> result, log |-> log]

DecodeId_FieldsOnly(text, prod_id, result, log) ==
    LET m == SearchId(text, prod_id)
        obj_start == ObjStart(text, m.pos)
        obj_end == ObjEnd(text, obj_start + 1, 1)
        product_json == SubSeq(text, obj_start, obj_end)
    IN IF m.error THEN [exc |-> "re.error", result |-> result, log |-> log]
       ELSE IF m.pos = 0 \/ obj_start = 0 \/ obj_end = 0 THEN Going(result, log)
       ELSE Going(DictSet(result, prod_id,
                          extract_product_fields(product_json, prod_id)),
                  Append(log, Attempt(prod_id, "fields", "ok")))

\* Lines 239-280: one turn of the loop over product_ids.
DecodeId(text, prod_id, result, log) ==
    LET m == SearchId(text, prod_id)
        obj_start == ObjStart(text, m.pos)
        obj_end == ObjEnd(text, obj_start + 1, 1)
        product_json == SubSeq(text, obj_start, obj_end)
        loaded == json_loads(product_json)
        product_data == ProductData(product_json)
        actual_id == IF ~IsRetailerKey(prod_id) THEN prod_id
                     ELSE IF product_data.productId = Absent THEN prod_id
                     ELSE product_data.productId
    IN IF m.error THEN [exc |-> "re.error", result |-> result, log |-> log]
       ELSE IF m.pos = 0 \/ obj_start = 0 \/ obj_end = 0 THEN Going(result, log)
       ELSE CASE loaded = "ok" ->
                   Going(DictSet(result, actual_id, product_data),
                         Append(log, Attempt(prod_id, "fragment", "ok")))
              [] loaded = "RecursionError" ->
                   [exc |-> "RecursionError", result |-> result,
                    log |-> Append(log, Attempt(prod_id, "fragment", loaded))]
              [] OTHER ->
                   Going(DictSet(result, prod_id,
                                 extract_product_fields(product_json, prod_id)),
                         log \o << Attempt(prod_id, "fragment", loaded),
                                   Attempt(prod_id, "fields", "ok") >>)

RECURSIVE DecodeIds(_, _, _)
DecodeIds(text, ids, acc) ==
    IF ids = << >> \/ acc.exc # "none" THEN acc
    ELSE DecodeIds(text, Tail(ids), DecodeId(text, Head(ids), acc.result, acc.log))

Placeholder(clean_id) ==
    [productId |-> clean_id,
     retailerProductId |-> SearchTerm,
     name |-> "Product " \o clean_id,
     available |-> "True"]

\* Lines 282-293.
RECURSIVE Placeholders(_, _)
Placeholders(ids, result) ==
    IF ids = << >> THEN result
    ELSE Placeholders(Tail(ids),
                      DictSet(result, CleanId(Head(ids)), Placeholder(CleanId(Head(ids)))))

EmptyFragment == << >>

Returned(isNone, product, log) ==
    [exc |-> "none", isNone |-> isNone, product |-> product, log |-> log]

Raising(exc, log) ==
    [exc |-> exc, isNone |-> TRUE, product |-> << >>, log |-> log]

\* The body of the try block, lines 188-295: the value returned (None, or a
\* fragment) or the exception raised, with the decode attempts made on the
\* way.
FetchBody(reply) ==
    LET text == reply.text
        ids == product_ids(text)
        scan == DecodeIds(text, ids, Going(EmptyFragment, << >>))
    IN CASE reply.kind = "timeout" -> Raising("Timeout", << >>)
         [] reply.kind = "error" -> Raising("ConnectionError", << >>)
         [] reply.kind = "status" -> Returned(TRUE, << >>, << >>)
         [] OTHER ->
              IF ~HasIdText(text) THEN Returned(FALSE, EmptyFragment, << >>)
              ELSE IF scan.exc # "none" THEN Raising(scan.exc, scan.log)
              ELSE IF scan.result = << >> /\ ids # << >>
              THEN Returned(FALSE, Placeholders(ids, << >>),
                            Append(scan.log, Attempt("", "placeholder", "ok")))
              ELSE Returned(FALSE, scan.result, scan.log)

\* fetch_product_data with its except clauses, lines 297-306: isNone tells a
\* returned None from a returned fragment, raised an exception that leaves
\* the function.
FetchProductData(reply) ==
    LET body == FetchBody(reply) IN
    CASE body.exc = "none" ->
           [raised |-> FALSE, isNone |-> body.isNone, product |-> body.product,
            log |-> body.log]
      [] body.exc = "Timeout" ->
           [raised |-> FALSE, isNone |-> TRUE, product |-> << >>, log |-> body.log]
      [] body.exc = "RecursionError" ->
           [raised |-> FALSE, isNone |-> FALSE, product |-> EmptyFragment,
            log |-> body.log]
      [] body.exc \in {"re.error", "ConnectionError"} ->
           [raised |-> FALSE, isNone |-> TRUE, product |-> << >>, log |-> body.log]
      [] OTHER ->
           [raised |-> TRUE, isNone |-> TRUE, product |-> << >>, log |-> body.log]

\* ------------------------------------------- process_term on the fragment
\* The limits a request may carry: the default 'all', a string that is no
\* integer, or an integer (as a number or as its decimal string).
IntLimits == {"-1", "0", "1", "2"}
ResolveLimits == {"all", "abc"} \cup IntLimits

\* The search modes a request may name; fetch_product reads searchTerm,
\* sessionId and limit and nothing else of the request.
SearchModes == {"best-match", "broad"}

\* int(limit)
LimitInt(lim) ==
    CASE lim = "-1" -> -1
      [] lim = "0" -> 0
      [] lim = "1" -> 1
      [] lim = "2" -> 2

\* keys[:max_items]; a negative stop counts from the end.
KeysUpTo(keys, max_items) ==
    IF max_items >= 0
    THEN SubSeq(keys, 1, Min(max_items, Len(keys)))
    ELSE SubSeq(keys, 1, IF Len(keys) + max_items > 0 THEN Len(keys) + max_items ELSE 0)

TypoMessage(term) ==
    "The article \"" \o term
      \o "\" was not found. It may not be published yet or could be a typo."

ErrorMessage == "Error processing the article. Please try again."

\* The not-found entry of lines 372-383, 491-503 and 520-533.
NotFoundEntry(term, msg) ==
    [found |-> FALSE,
     searchTerm |-> term,
     productId |-> None,
     retailerProductId |-> None,
     name |-> "Article Not Found: " \o term,
     available |-> "False",
     notFoundMessage |-> msg]

\* product.get(key)
Get(v) == IF v = Absent THEN None ELSE v

\* Lines 411-421: product_info of a record.
ProductInfo(term, product) ==
    [found |-> TRUE,
     searchTerm |-> term,
     productId |-> Get(product.productId),
     retailerProductId |-> Get(product.retailerProductId),
     name |-> Get(product.name),
     available |-> IF product.available = Absent THEN "False" ELSE product.available,
     notFoundMessage |-> Absent]

ProcessTerm_LimitFirst(term, lim, raw_data) ==
    IF lim # "all" /\ lim \notin IntLimits
    THEN [info |-> NotFoundEntry(term, ErrorMessage), total |-> 0]
    ELSE IF raw_data.isNone \/ raw_data.product = << >>
    THEN [info |-> NotFoundEntry(term, TypoMessage(term)), total |-> 0]
    ELSE [info |-> ProductInfo(term, raw_data.product[1].rec),
          total |-> Len(raw_data.product)]

\* process_term, lines 364-533, from the value fetch_product_data returned:
\* the outcome and the count returned with it. A limit that is no integer
\* leaves product_keys a key view, which product_keys[0] cannot index: the
\* TypeError ends in the handler of lines 520-533.
ProcessTerm(term, lim, raw_data) ==
    LET product_entities == raw_data.product
        term_total_found == Len(product_entities)
        keys == [i \in DOMAIN product_entities |-> product_entities[i].key]
        kept_keys == IF lim = "all" THEN KeysUpTo(keys, 1)
                        ELSE KeysUpTo(keys, LimitInt(lim))
    IN IF raw_data.isNone \/ product_entities = << >>
       THEN [info |-> NotFoundEntry(term, TypoMessage(term)), total |-> 0]
       ELSE IF lim # "all" /\ lim \notin IntLimits
       THEN [info |-> NotFoundEntry(term, ErrorMessage), total |-> 0]
       ELSE IF kept_keys = << >>
       THEN [info |-> NotFoundEntry(term, TypoMessage(term)), total |-> 0]
       ELSE [info |-> ProductInfo(term, product_entities[1].rec),
             total |-> term_total_found]

\* ------------------------------------------------ process_term on a price
\* An amount of the upstream record: a number (or its decimal string), null,
\* a string that is no number, or no such object under the price.
Amount(kind, n) == [kind |-> kind, n |-> n]
NumAmounts == {Amount("num", n) : n \in -1..MaxAmount}
Amounts ==
    NumAmounts \cup {Amount("null", 0), Amount("text", 0), Amount("absent", 0)}
PriceInfos == [current : Amounts, original : Amounts]
NoPrice == [current |-> Amount("absent", 0), original |-> Amount("absent", 0)]

\* round(x) of the quotient num / den, den > 0: to the nearest integer, a tie
\* to the even one.
RoundHalfEven(num, den) ==
    LET q == num \div den
        r == num % den
    IN IF 2 * r < den THEN q
       ELSE IF 2 * r > den THEN q + 1
       ELSE IF q % 2 = 0 THEN q ELSE q + 1

DiscountPercentage_Truncated(current_price, original_price) ==
    (100 * (original_price - current_price)) \div original_price

\* Lines 455-456.
DiscountPercentage(current_price, original_price) ==
    RoundHalfEven(100 * (original_price - current_price), original_price)

\* Lines 436-461: the price fields of product_info. Dividing by an original
\* price of zero raises ZeroDivisionError, which no handler of the price
\* block catches.
PriceFields(price) ==
    LET current == price.current
        original == price.original
        both == /\ current.kind \notin {"absent", "null"}
                /\ original.kind \notin {"absent", "null"}
        numbers == current.kind = "num" /\ original.kind = "num"
        cheaper == both /\ numbers /\ original.n > current.n
    IN [raised |-> cheaper /\ original.n = 0,
        currentPrice |-> current,
        originalPrice |-> original,
        hasDiscount |-> cheaper /\ original.n # 0,
        discountPercentage |->
            IF cheaper /\ original.n # 0
            THEN DiscountPercentage(current.n, original.n)
            ELSE 0]

FetchIdle == fetch_reply = NoReply /\ fetched = << >>

ResolveIdle == resolved = << >> /\ price_info = NoPrice /\ priced = << >>

\* ------------------------------------------------------------------ Init
Init ==
    /\ pc = "validate"
    /\ limit = "all"
    /\ region_info = None
    /\ individual_terms = << >>
    /\ tstate = << >>
    /\ cause = << >>
    /\ batch_workers = 0
    /\ pools = 0
    /\ batches = << >>
    /\ stream = << >>
    /\ first_product = TRUE
    /\ processed_count = 0
    /\ batch_count = 0
    /\ total_batches = 0
    /\ batch_total_found = 0
    /\ total_found = 0
    /\ batch_products = << >>
    /\ products = << >>
    /\ not_found_terms = << >>
    /\ response = [status |-> "none", code |-> 0, error |-> ""]
    /\ future_results = {}
    /\ search_input = << >>
    /\ parsed = << >>
    /\ FetchIdle
    /\ ResolveIdle

ErrorResponse(code, msg) == [status |-> "error", code |-> code, error |-> msg]

\* fetch_product, lines 541-552: the first check that fails names the error.
RequiredMessage(has_data, has_term) ==
    IF ~has_data THEN "No request data provided"
    ELSE IF ~has_term THEN "Search term is required"
    ELSE "Session ID is required"

\* Faulty variant: the region is looked up before the fields are checked.
Validate_RegionFirst ==
    /\ pc = "validate"
    /\ \E has_data \in BOOLEAN, has_term \in BOOLEAN, has_session \in BOOLEAN,
          lim \in Limits, reply \in RegionReplies :
         /\ region_info' = get_region_info(reply)
         /\ IF has_data /\ has_term /\ has_session
            THEN /\ pc' = "parse"
                 /\ limit' = lim
                 /\ UNCHANGED response
            ELSE /\ pc' = "error"
                 /\ response' = ErrorResponse(400, RequiredMessage(has_data, has_term))
                 /\ UNCHANGED limit
    /\ UNCHANGED << individual_terms, tstate, cause, batch_workers,
                    pools, batches, stream, first_product, processed_count,
                    batch_count, total_batches, batch_total_found, total_found,
                    batch_products, products, not_found_terms, parseVars, fetchVars,
                    resolveVars, future_results >>

\* fetch_product, lines 539-552: the request's fields are read and checked.
Validate ==
    /\ pc = "validate"
    /\ \E has_data \in BOOLEAN, has_term \in BOOLEAN, has_session \in BOOLEAN,
          lim \in Limits :
         IF has_data /\ has_term /\ has_session
         THEN /\ pc' = "region"
              /\ limit' = lim
              /\ UNCHANGED response
         ELSE /\ pc' = "error"
              /\ response' = ErrorResponse(400, RequiredMessage(has_data, has_term))
              /\ UNCHANGED limit
    /\ UNCHANGED << region_info, individual_terms, tstate, cause, batch_workers,
                    pools, batches, stream, first_product, processed_count,
                    batch_count, total_batches, batch_total_found, total_found,
                    batch_products, products, not_found_terms, parseVars, fetchVars,
                    resolveVars, future_results >>

\* fetch_product, lines 555-558.
GetRegion ==
    /\ pc = "region"
    /\ \E reply \in RegionReplies :
         /\ region_info' = get_region_info(reply)
         /\ IF region_info' = None
            THEN /\ pc' = "error"
                 /\ response' = ErrorResponse(400, "Could not determine region from session ID")
            ELSE pc' = "parse" /\ UNCHANGED response
    /\ UNCHANGED << limit, individual_terms, tstate, cause, batch_workers,
                    pools, batches, stream, first_product, processed_count,
                    batch_count, total_batches, batch_total_found, total_found,
                    batch_products, products, not_found_terms, parseVars, fetchVars,
                    resolveVars, future_results >>

\* fetch_product, lines 564-569: the parser's result is a list of distinct
\* terms, named here by their positions; the path is chosen on its length.
Parse ==
    /\ pc = "parse"
    /\ \E n \in 0..MaxTerms :
         /\ individual_terms' = [i \in 1..n |-> i]
         /\ tstate' = [i \in 1..n |-> "idle"]
         /\ cause' = [i \in 1..n |-> NoCause]
         /\ pc' = IF UseStreaming(n) THEN "stream_open" ELSE "small_start"
    /\ UNCHANGED << limit, region_info, batch_workers, pools, batches, stream,
                    first_product, processed_count, batch_count, total_batches,
                    batch_total_found, total_found, batch_products, products,
                    not_found_terms, response, parseVars, fetchVars,
                    resolveVars, future_results >>

\* generate_response, lines 572-591.
StreamOpen ==
    /\ pc = "stream_open"
    /\ total_batches' = TotalBatches(Len(individual_terms), BATCH_SIZE)
    /\ stream' = OpeningFragment(region_info, individual_terms, total_batches')
    /\ first_product' = TRUE
    /\ pc' = "batch_loop"
    /\ UNCHANGED << limit, region_info, individual_terms, tstate, cause,
                    batch_workers, pools, batches, processed_count, batch_count,
                    batch_total_found, total_found, batch_products, products,
                    not_found_terms, response, parseVars, fetchVars,
                    resolveVars, future_results >>

\* generate_response, lines 594-606: the next slice is taken and every one
\* of its terms is submitted to a fresh executor.
BatchBegin ==
    /\ pc = "batch_loop"
    /\ batch_count * BATCH_SIZE < Len(individual_terms)
    /\ LET batch_terms == BatchTerms(individual_terms, batch_count * BATCH_SIZE) IN
         /\ batch_count' = batch_count + 1
         /\ batches' = Append(batches, batch_terms)
         /\ batch_workers' = BatchWorkers(Len(batch_terms))
         /\ tstate' = [t \in Terms |->
                         IF t \in Range(batch_terms) THEN "queued" ELSE tstate[t]]
    /\ pools' = pools + 1
    /\ future_results' = {}
    /\ batch_products' = << >>
    /\ batch_total_found' = 0
    /\ pc' = "collect"
    /\ UNCHANGED << limit, region_info, individual_terms, cause, stream,
                    first_product, processed_count, total_batches, total_found,
                    products, not_found_terms, response, parseVars, fetchVars,
                    resolveVars >>

\* A worker thread of the executor takes the next work item.
WorkerStart(t) ==
    /\ NextQueued(t)
    /\ Cardinality(InState("running")) < batch_workers
    /\ tstate' = [tstate EXCEPT ![t] = "running"]
    /\ UNCHANGED << pc, limit, region_info, individual_terms, cause, batch_workers,
                    pools, batches, stream, first_product, processed_count,
                    batch_count, total_batches, batch_total_found, total_found,
                    batch_products, products, not_found_terms, response,
                    parseVars, fetchVars,
                    resolveVars, future_results >>

\* Faulty variant: the worker itself counts its term as processed.
WorkerFinish_CountsProcessed(t) ==
    /\ tstate[t] = "running"
    /\ \E c \in Causes :
         /\ cause' = [cause EXCEPT ![t] = c]
         /\ future_results' = IF c.kind = "raise" THEN future_results
                              ELSE future_results \cup {t}
    /\ tstate' = [tstate EXCEPT ![t] = "finished"]
    /\ processed_count' = processed_count + 1
    /\ UNCHANGED << pc, limit, region_info, individual_terms, batch_workers,
                    pools, batches, stream, first_product,
                    batch_count, total_batches, batch_total_found, total_found,
                    batch_products, products, not_found_terms, response,
                    parseVars, fetchVars,
                    resolveVars >>

\* process_term runs to its end in the worker: the future is done, and it
\* keeps the returned (product_info, total_found) unless the call raised.
WorkerFinish(t) ==
    /\ tstate[t] = "running"
    /\ \E c \in Causes :
         /\ cause' = [cause EXCEPT ![t] = c]
         /\ future_results' = IF c.kind = "raise" THEN future_results
                              ELSE future_results \cup {t}
    /\ tstate' = [tstate EXCEPT ![t] = "finished"]
    /\ UNCHANGED << pc, limit, region_info, individual_terms, batch_workers,
                    pools, batches, stream, first_product, processed_count,
                    batch_count, total_batches, batch_total_found, total_found,
                    batch_products, products, not_found_terms, response,
                    parseVars, fetchVars,
                    resolveVars >>

\* generate_response, lines 609-650: as_completed yields a finished future.
StreamCollect(t) ==
    /\ pc = "collect"
    /\ t \in Futures
    /\ tstate[t] = "finished"
    /\ tstate' = [tstate EXCEPT ![t] = "collected"]
    /\ processed_count' = processed_count + 1
    /\ LET r == process_term(individual_terms[t], limit, cause[t]) IN
         IF r.raised
         THEN LET not_found_entry == NotFoundInfo(individual_terms[t], "typo") IN
              /\ stream' = stream \o ElementFragment(first_product, not_found_entry)
              /\ first_product' = FALSE
              /\ batch_products' = Append(batch_products, not_found_entry)
              /\ UNCHANGED batch_total_found
         ELSE IF HasInfo(r.info)
         THEN /\ batch_total_found' = batch_total_found + r.total
              /\ stream' = stream \o ElementFragment(first_product, r.info)
              /\ first_product' = FALSE
              /\ batch_products' = Append(batch_products, r.info)
         ELSE UNCHANGED << batch_total_found, stream, first_product, batch_products >>
    /\ cause' = [cause EXCEPT ![t] = NoCause]
    /\ UNCHANGED << pc, limit, region_info, individual_terms, batch_workers,
                    pools, batches, batch_count, total_batches, total_found,
                    products, not_found_terms, response, parseVars, fetchVars,
                    resolveVars, future_results >>

\* generate_response, lines 651-666: the executor is left, the batch's
\* statistics are folded in and its products are dropped.
BatchEnd ==
    /\ pc = "collect"
    /\ Drained
    /\ total_found' = total_found + batch_total_found
    /\ batch_products' = << >>
    /\ pc' = "batch_loop"
    /\ UNCHANGED << limit, region_info, individual_terms, tstate, cause,
                    batch_workers, pools, batches, stream, first_product,
                    processed_count, batch_count, total_batches, batch_total_found,
                    products, not_found_terms, response, parseVars, fetchVars,
                    resolveVars, future_results >>

\* generate_response, lines 668-672.
StreamFinish ==
    /\ pc = "batch_loop"
    /\ batch_count * BATCH_SIZE >= Len(individual_terms)
    /\ stream' = stream \o ClosingFragment(total_found, processed_count)
    /\ pc' = "stream_done"
    /\ UNCHANGED << limit, region_info, individual_terms, tstate, cause,
                    batch_workers, pools, batches, first_product, processed_count,
                    batch_count, total_batches, batch_total_found, total_found,
                    batch_products, products, not_found_terms, response,
                    parseVars, fetchVars,
                    resolveVars, future_results >>

\* fetch_product, lines 678-686: ThreadPoolExecutor refuses max_workers = 0
\* with a ValueError, which the handler's except clause (lines 735-741)
\* turns into the error response.
SmallStart ==
    /\ pc = "small_start"
    /\ IF BatchWorkers(Len(individual_terms)) <= 0
       THEN /\ pc' = "error"
            /\ response' = ErrorResponse(500, "max_workers must be greater than 0")
            /\ UNCHANGED << batch_workers, pools, tstate, future_results >>
       ELSE /\ pc' = "small_collect"
            /\ batch_workers' = BatchWorkers(Len(individual_terms))
            /\ pools' = pools + 1
            /\ tstate' = [t \in Terms |-> "queued"]
            /\ future_results' = {}
            /\ UNCHANGED response
    /\ UNCHANGED << limit, region_info, individual_terms, cause, batches, stream,
                    first_product, processed_count, batch_count, total_batches,
                    batch_total_found, total_found, batch_products, products,
                    not_found_terms, parseVars, fetchVars,
                    resolveVars >>

\* Faulty variant: a term whose future raised is not listed as not found.
SmallCollect_RaisedNotListed(t) ==
    /\ pc = "small_collect"
    /\ t \in Futures
    /\ tstate[t] = "finished"
    /\ tstate' = [tstate EXCEPT ![t] = "collected"]
    /\ LET term == individual_terms[t]
           r == process_term(term, limit, cause[t]) IN
         IF r.raised
         THEN /\ not_found_terms' = not_found_terms
              /\ products' = Append(products, NotFoundInfo(term, "error"))
              /\ UNCHANGED total_found
         ELSE IF HasInfo(r.info)
         THEN /\ products' = Append(products, r.info)
              /\ total_found' = total_found + r.total
              /\ not_found_terms' = IF ~r.info.found
                                    THEN Append(not_found_terms, term)
                                    ELSE not_found_terms
         ELSE UNCHANGED << products, total_found, not_found_terms >>
    /\ cause' = [cause EXCEPT ![t] = NoCause]
    /\ UNCHANGED << pc, limit, region_info, individual_terms, batch_workers,
                    pools, batches, stream, first_product, processed_count,
                    batch_count, total_batches, batch_total_found, batch_products,
                    response, parseVars, fetchVars,
                    resolveVars, future_results >>

\* fetch_product, lines 688-717.
SmallCollect(t) ==
    /\ pc = "small_collect"
    /\ t \in Futures
    /\ tstate[t] = "finished"
    /\ tstate' = [tstate EXCEPT ![t] = "collected"]
    /\ LET term == individual_terms[t]
           r == process_term(term, limit, cause[t]) IN
         IF r.raised
         THEN /\ not_found_terms' = Append(not_found_terms, term)
              /\ products' = Append(products, NotFoundInfo(term, "error"))
              /\ UNCHANGED total_found
         ELSE IF HasInfo(r.info)
         THEN /\ products' = Append(products, r.info)
              /\ total_found' = total_found + r.total
              /\ not_found_terms' = IF ~r.info.found
                                    THEN Append(not_found_terms, term)
                                    ELSE not_found_terms
         ELSE UNCHANGED << products, total_found, not_found_terms >>
    /\ cause' = [cause EXCEPT ![t] = NoCause]
    /\ UNCHANGED << pc, limit, region_info, individual_terms, batch_workers,
                    pools, batches, stream, first_product, processed_count,
                    batch_count, total_batches, batch_total_found, batch_products,
                    response, parseVars, fetchVars,
                    resolveVars, future_results >>

\* fetch_product, lines 719-733.
SmallFinish ==
    /\ pc = "small_collect"
    /\ Drained
    /\ response' = [status |-> "completed", code |-> 200, error |-> ""]
    /\ pc' = "small_done"
    /\ UNCHANGED << limit, region_info, individual_terms, tstate, cause,
                    batch_workers, pools, batches, stream, first_product,
                    processed_count, batch_count, total_batches, batch_total_found,
                    total_found, batch_products, products, not_found_terms,
                    parseVars, fetchVars,
                    resolveVars, future_results >>

Next ==
    \/ Validate
    \/ GetRegion
    \/ Parse
    \/ StreamOpen
    \/ BatchBegin
    \/ \E t \in Terms : WorkerStart(t)
    \/ \E t \in Terms : WorkerFinish(t)
    \/ \E t \in Terms : StreamCollect(t)
    \/ BatchEnd
    \/ StreamFinish
    \/ SmallStart
    \/ \E t \in Terms : SmallCollect(t)
    \/ SmallFinish

Spec == Init /\ [][Next]_vars

\* ------------------------------------------------ the parser on its own
RequestIdle ==
    /\ pc = "validate"
    /\ limit = "all"
    /\ region_info = None
    /\ individual_terms = << >>
    /\ tstate = << >>
    /\ cause = << >>
    /\ batch_workers = 0
    /\ pools = 0
    /\ batches = << >>
    /\ stream = << >>
    /\ first_product = TRUE
    /\ processed_count = 0
    /\ batch_count = 0
    /\ total_batches = 0
    /\ batch_total_found = 0
    /\ total_found = 0
    /\ batch_products = << >>
    /\ products = << >>
    /\ not_found_terms = << >>
    /\ response = [status |-> "none", code |-> 0, error |-> ""]
    /\ future_results = {}

InitParse ==
    /\ RequestIdle
    /\ search_input \in ParserInputs
    /\ parsed = << >>
    /\ FetchIdle
    /\ ResolveIdle

\* parse_search_terms is applied to the input.
ParseTerms ==
    /\ parsed = << >>
    /\ parsed' = << parse_search_terms(search_input) >>
    /\ UNCHANGED << search_input, reqVars, fetchVars, resolveVars >>

NextParse == ParseTerms

SpecParse == InitParse /\ [][NextParse]_vars

\* ------------------------------------------- fetch_product_data on its own
InitFetch ==
    /\ RequestIdle
    /\ search_input = << >>
    /\ parsed = << >>
    /\ fetch_reply \in Replies
    /\ fetched = << >>
    /\ ResolveIdle

\* fetch_product_data is called for the term and returns.
FetchData ==
    /\ fetched = << >>
    /\ fetched' = << FetchProductData(fetch_reply) >>
    /\ UNCHANGED << fetch_reply, reqVars, parseVars, resolveVars >>

NextFetch == FetchData

SpecFetch == InitFetch /\ [][NextFetch]_vars

\* ------------------------------------------------- process_term on its own
\* process_term goes on with the value fetch_product_data returned; the
\* response it was read from is gone.
Resolve ==
    /\ fetched # << >>
    /\ resolved = << >>
    /\ \E lim \in ResolveLimits, mode \in SearchModes :
         resolved' = << [limit |-> lim,
                         search_mode |-> mode,
                         result |-> ProcessTerm(SearchTerm, lim, fetched[1])] >>
    /\ fetch_reply' = NoReply
    /\ UNCHANGED << fetched, price_info, priced, reqVars, parseVars >>

NextResolve == FetchData \/ Resolve

SpecResolve == InitFetch /\ [][NextResolve]_vars

InitPrice ==
    /\ RequestIdle
    /\ search_input = << >>
    /\ parsed = << >>
    /\ FetchIdle
    /\ resolved = << >>
    /\ price_info \in PriceInfos
    /\ priced = << >>

\* process_term builds the price fields of the record it reads.
PriceProduct ==
    /\ priced = << >>
    /\ priced' = << PriceFields(price_info) >>
    /\ UNCHANGED << price_info, resolved, reqVars, parseVars, fetchVars >>

NextPrice == PriceProduct

SpecPrice == InitPrice /\ [][NextPrice]_vars

\* =================================================================== claims
\* ---------------------------------------------------- reading the stream
ObjPositions(toks) == {i \in DOMAIN toks : toks[i].k = "OBJ"}

OutcomesFor(toks, term) ==
    {i \in ObjPositions(toks) : toks[i].val.searchTerm = term}

\* The grammar of a JSON document over the tokens: an object whose members
\* are scalars or arrays of values, with commas between, never before or
\* after.
JsonStep(st, k) ==
    CASE st = "START" /\ k = "LBRACE" -> "OBJ_OPEN"
      [] st \in {"OBJ_OPEN", "OBJ_NEXT"} /\ k = "MEM" -> "OBJ_MEMBER"
      [] st \in {"OBJ_OPEN", "OBJ_NEXT"} /\ k = "KEY" -> "OBJ_KEY"
      [] st = "OBJ_OPEN" /\ k = "RBRACE" -> "END"
      [] st = "OBJ_MEMBER" /\ k = "COMMA" -> "OBJ_NEXT"
      [] st = "OBJ_MEMBER" /\ k = "RBRACE" -> "END"
      [] st = "OBJ_KEY" /\ k = "LBRACK" -> "ARR_OPEN"
      [] st = "ARR_OPEN" /\ k = "OBJ" -> "ARR_ELEM"
      [] st \in {"ARR_OPEN", "ARR_ELEM"} /\ k = "RBRACK" -> "OBJ_MEMBER"
      [] st = "ARR_ELEM" /\ k = "COMMA" -> "ARR_NEXT"
      [] st = "ARR_NEXT" /\ k = "OBJ" -> "ARR_ELEM"
      [] OTHER -> "BAD"

RECURSIVE JsonScan(_, _, _)
JsonScan(toks, i, st) ==
    IF i > Len(toks) THEN st ELSE JsonScan(toks, i + 1, JsonStep(st, toks[i].k))

WellFormedJson(toks) == JsonScan(toks, 1, "START") = "END"

MemberPositions(toks, key) ==
    {i \in DOMAIN toks : toks[i].k = "MEM" /\ toks[i].key = key}

\* The value a decoder gives a key: that of its last occurrence.
JsonValue(toks, key) ==
    LET ps == MemberPositions(toks, key)
        last == CHOOSE i \in ps : \A j \in ps : j <= i
    IN toks[last].val

HasMember(toks, key) == MemberPositions(toks, key) # {}

CompletedPositions(toks) ==
    {i \in MemberPositions(toks, "status") : toks[i].val = "completed"}

\* The batch a term belongs to when the list is cut into contiguous batches
\* of BATCH_SIZE in input order; a term is named by its position.
BatchIndex(t) == ((t - 1) \div BATCH_SIZE) + 1

Streaming == stream # << >>

\* C1: when a request that reached term resolution has finished, on either
\* path, the number of outcomes equals the number of terms and every term is
\* the searchTerm of exactly one outcome; before that no term has two.
C1_OneOutcomePerTerm ==
    /\ \A t \in Range(individual_terms) :
         /\ Cardinality(OutcomesFor(stream, t)) <= 1
         /\ Cardinality({i \in DOMAIN products : products[i].searchTerm = t}) <= 1
    /\ pc = "stream_done" =>
         /\ Cardinality(ObjPositions(stream)) = Len(individual_terms)
         /\ \A t \in Range(individual_terms) :
              Cardinality(OutcomesFor(stream, t)) = 1
    /\ pc = "small_done" =>
         /\ Len(products) = Len(individual_terms)
         /\ \A t \in Range(individual_terms) :
              Cardinality({i \in DOMAIN products : products[i].searchTerm = t}) = 1

\* A finished stream whose outcomes are not in input order and hold both a
\* found and a not-found entry.
C1_Witness ==
    /\ pc = "stream_done"
    /\ \E i, j \in ObjPositions(stream) :
         /\ i < j
         /\ stream[i].val.searchTerm > stream[j].val.searchTerm
         /\ stream[i].val.found /\ ~stream[j].val.found

\* The outcome appended by a step that collects the future of term t.
CollectedOutcome(t) ==
    IF Len(products') > Len(products)
    THEN << products'[Len(products')] >>
    ELSE IF Len(stream') > Len(stream) /\ stream'[Len(stream')].k = "OBJ"
    THEN << stream'[Len(stream')].val >>
    ELSE << >>

\* Nothing written before the step is altered by it.
KeepsEarlierOutcomes ==
    /\ Len(stream') >= Len(stream) /\ SubSeq(stream', 1, Len(stream)) = stream
    /\ Len(products') >= Len(products) /\ SubSeq(products', 1, Len(products)) = products

C2_Isolated ==
    \A t \in Terms :
      (tstate[t] = "finished" /\ tstate'[t] = "collected") =>
        /\ KeepsEarlierOutcomes
        /\ Len(CollectedOutcome(t)) = 1
        /\ CollectedOutcome(t)[1].searchTerm = individual_terms[t]
        /\ cause[t].kind \in FailureKinds => ~CollectedOutcome(t)[1].found
        /\ (cause[t].kind = "records" /\ limit # "0") => CollectedOutcome(t)[1].found
        /\ \A u \in Terms \ {t} : tstate'[u] = tstate[u]
        /\ pc' = pc

RequestOver == pc \in {"stream_done", "small_done", "error"}

\* C2: collecting a term whose fetch or resolution failed (status, timeout,
\* transport error, an error raised in or out of process_term) appends a
\* NotFound outcome for that term and changes nothing else: earlier outcomes
\* stay, the other terms keep their state, a term with records is still
\* found; and the request never stops before it is over, which it is with an
\* error response only when no term was ever dispatched.
C2_FailureIsTermScoped ==
    /\ [][C2_Isolated]_vars
    /\ [](RequestOver \/ ENABLED Next)
    /\ [](pc = "error" => pools = 0)

\* A finished stream of two batches in which a term of the first batch failed
\* while resolving, another term of that batch was found, and the term of the
\* second batch was found as well.
C2_Witness ==
    /\ pc = "stream_done"
    /\ \E i, j, k \in ObjPositions(stream) :
         /\ stream[i].val.msg = "error"
         /\ stream[j].val.found
         /\ BatchIndex(stream[i].val.searchTerm) = 1
         /\ BatchIndex(stream[j].val.searchTerm) = 1
         /\ BatchIndex(stream[k].val.searchTerm) = 2
         /\ stream[k].val.found

\* C3: at normal completion the tokens yielded by the generator form one
\* well-formed JSON document whose status is "completed" and whose
\* total_processed is the number of parsed terms.
C3_StreamIsJson ==
    pc = "stream_done" =>
      /\ Len(individual_terms) > STREAM_THRESHOLD
      /\ WellFormedJson(stream)
      /\ HasMember(stream, "status")
      /\ JsonValue(stream, "status") = "completed"
      /\ HasMember(stream, "total_processed")
      /\ JsonValue(stream, "total_processed") = Len(individual_terms)

\* A finished stream with as many array elements as terms, more than one.
C3_Witness ==
    /\ pc = "stream_done"
    /\ Cardinality(ObjPositions(stream)) = MaxTerms
    /\ WellFormedJson(stream)

\* C4: a "completed" status occurs in the stream only once the generator has
\* finished, only inside its last fragment, and only after an outcome of
\* every term.
C4_CompletedOnlyAtEnd ==
    \A p \in CompletedPositions(stream) :
      /\ pc = "stream_done"
      /\ p > Len(stream) - Len(ClosingFragment(0, 0))
      /\ \A t \in Range(individual_terms) :
           \E q \in OutcomesFor(stream, t) : q < p

\* The generator has finished and the status "completed" is in the stream.
C4_Witness ==
    /\ pc = "stream_done"
    /\ CompletedPositions(stream) # {}
    /\ Len(batches) >= 2

\* C5: when an outcome of a term is in the stream, an outcome of every term
\* of every earlier batch is in the stream before it.
C5_BatchOrder ==
    \A q \in ObjPositions(stream) :
      \A t \in Range(individual_terms) :
        BatchIndex(t) < BatchIndex(stream[q].val.searchTerm) =>
          \E p \in OutcomesFor(stream, t) : p < q

\* A finished stream of two batches in which two outcomes of the first batch
\* are in the reverse of their input order.
C5_Witness ==
    /\ pc = "stream_done"
    /\ \E p, q, r \in ObjPositions(stream) :
         /\ p < q /\ q < r
         /\ stream[p].val.searchTerm > stream[q].val.searchTerm
         /\ BatchIndex(stream[p].val.searchTerm) = BatchIndex(stream[q].val.searchTerm)
         /\ BatchIndex(stream[r].val.searchTerm) > BatchIndex(stream[q].val.searchTerm)

\* C6: on the streaming path a term is queued or run only if every worker of
\* every earlier batch has completed.
C6_NoBatchOverlap ==
    Streaming =>
      \A t, u \in Terms :
        (BatchIndex(t) < BatchIndex(u) /\ tstate[u] # "idle") =>
          tstate[t] \in {"finished", "collected"}

\* A term of the second batch is running.
C6_Witness ==
    /\ Streaming
    /\ \E u \in InState("running") : BatchIndex(u) = 2

\* The cap of the executor in use: that of the current batch when streaming,
\* that of the whole term list otherwise.
InFlightCap ==
    IF Streaming
    THEN (IF batches = << >> THEN 0
          ELSE Min(MAX_WORKERS, Len(batches[Len(batches)])))
    ELSE Min(MAX_WORKERS, Len(individual_terms))

\* C7: the number of term fetches in flight never exceeds min(C, size of the
\* current batch) when streaming and min(C, number of terms) otherwise.
C7_InFlightBounded == Cardinality(InState("running")) <= InFlightCap

\* The cap is reached while a term still waits in the queue.
C7_Witness ==
    /\ Cardinality(InState("running")) = MAX_WORKERS
    /\ InState("queued") # {}
    /\ Streaming

\* The least k with k * size >= n.
CeilDiv(n, size) == CHOOSE k \in 0..n : k * size >= n /\ (k = 0 \/ (k - 1) * size < n)

\* C8: the batches taken so far are the consecutive slices of the term list,
\* each of BATCH_SIZE terms except possibly the last one of the list; the
\* announced total_batches is ceil(n / BATCH_SIZE), which is also the number
\* of batches taken at the end; 45 terms in batches of 20 make 3 batches.
C8_BatchPartition ==
    /\ \A k \in DOMAIN batches :
         /\ batches[k] = [j \in 1..Min(BATCH_SIZE, Len(individual_terms) - (k - 1) * BATCH_SIZE)
                            |-> individual_terms[(k - 1) * BATCH_SIZE + j]]
         /\ Len(batches[k]) >= 1
         /\ k * BATCH_SIZE < Len(individual_terms) => Len(batches[k]) = BATCH_SIZE
    /\ Streaming =>
         /\ total_batches = CeilDiv(Len(individual_terms), BATCH_SIZE)
         /\ HasMember(stream, "total_batches")
         /\ JsonValue(stream, "total_batches") = CeilDiv(Len(individual_terms), BATCH_SIZE)
         /\ Len(batches) = batch_count
    /\ pc = "stream_done" =>
         /\ Len(batches) = CeilDiv(Len(individual_terms), BATCH_SIZE)
         /\ \A t \in DOMAIN individual_terms :
              Cardinality({k \in DOMAIN batches :
                             individual_terms[t] \in Range(batches[k])}) = 1
    /\ TotalBatches(45, SRC_BATCH_SIZE) = 3

\* A finished stream whose last batch is shorter than BATCH_SIZE.
C8_Witness ==
    /\ pc = "stream_done"
    /\ Len(batches) >= 2
    /\ Len(batches[Len(batches)]) < BATCH_SIZE

StreamPositions == {"stream_open", "batch_loop", "collect", "stream_done"}
SmallPositions == {"small_start", "small_collect", "small_done"}

\* C9: the generator runs if and only if there are more than
\* STREAM_THRESHOLD terms; otherwise nothing is streamed, at most one
\* executor is created, every term is submitted to it at once, and the
\* handler returns one document.
C9_PathChoice ==
    /\ (pc \in StreamPositions \/ Streaming) => Len(individual_terms) > STREAM_THRESHOLD
    /\ pc \in SmallPositions =>
         /\ Len(individual_terms) <= STREAM_THRESHOLD
         /\ ~Streaming /\ batches = << >>
         /\ pools <= 1
    /\ pc \in {"small_collect", "small_done"} =>
         /\ pools = 1
         /\ \A t \in Terms : tstate[t] # "idle"
    /\ pc = "small_done" => response = [status |-> "completed", code |-> 200, error |-> ""]
    /\ (pc = "error" /\ response.code = 500) =>
         /\ Len(individual_terms) <= STREAM_THRESHOLD
         /\ ~Streaming
    /\ pc \in {"small_done", "error"} => response.status # "none"

\* The small path has finished with exactly STREAM_THRESHOLD terms.
C9_Witness ==
    /\ pc = "small_done"
    /\ Len(individual_terms) = STREAM_THRESHOLD
    /\ Len(products) = STREAM_THRESHOLD

\* The position of the first occurrence of x in s.
FirstIndex(s, x) == CHOOSE i \in DOMAIN s : s[i] = x /\ \A j \in 1..(i - 1) : s[j] # x

\* C10: the list returned by parse_search_terms has no duplicates, holds
\* exactly the candidate terms, and lists them in the order of their first
\* occurrence among the candidates.
C10_UniqueInFirstSeenOrder ==
    parsed # << >> =>
      LET terms == parsed[1].terms
          unique == parsed[1].unique_terms
      IN /\ \A i, j \in DOMAIN unique : i # j => unique[i] # unique[j]
         /\ Range(unique) = Range(terms)
         /\ \A i, j \in DOMAIN unique :
              i < j => FirstIndex(terms, unique[i]) < FirstIndex(terms, unique[j])

\* A parse that dropped a repeated term and kept two distinct ones, the
\* repeated one first.
C10_Witness ==
    /\ parsed # << >>
    /\ Len(parsed[1].unique_terms) = 2
    /\ parsed[1].duplicate_count = 1
    /\ parsed[1].terms[3] = parsed[1].unique_terms[1]

\* ------------------------------------------- reading the parser's result
Separators == {",", "\n"}

HasSeparator(s) == \E i \in DOMAIN s : s[i] \in Separators

\* The separator positions of s, with the two ends of s around them.
CutPoints(s) == {0, Len(s) + 1} \cup {i \in DOMAIN s : s[i] \in Separators}

NthCutPoint(s, k) ==
    CHOOSE b \in CutPoints(s) : Cardinality({c \in CutPoints(s) : c < b}) = k - 1

\* The pieces of s between consecutive separators, in order.
PiecesBetweenSeparators(s) ==
    [k \in 1..(Cardinality(CutPoints(s)) - 1) |->
       SubSeq(s, NthCutPoint(s, k) + 1, NthCutPoint(s, k + 1) - 1)]

\* p without its leading and trailing whitespace.
Trimmed(p) ==
    LET solid == {i \in DOMAIN p : ~IsSpace(p[i])} IN
    IF solid = {} THEN << >>
    ELSE SubSeq(p, CHOOSE i \in solid : \A j \in solid : i <= j,
                   CHOOSE i \in solid : \A j \in solid : j <= i)

\* The trimmed, non-empty pieces of s.
TrimmedPieces(s) ==
    LET ps == PiecesBetweenSeparators(s) IN
    SelectSeq([k \in DOMAIN ps |-> Trimmed(ps[k])], LAMBDA p : p # << >>)

\* u lists the distinct elements of t in the order of their first occurrence.
IsFirstSeenDedup(u, t) ==
    /\ \A i, j \in DOMAIN u : i # j => u[i] # u[j]
    /\ Range(u) = Range(t)
    /\ \A i, j \in DOMAIN u : i < j => FirstIndex(t, u[i]) < FirstIndex(t, u[j])

\* The positions of s where a coded token (digits, then EA) ends.
CodeEnds(s) ==
    {e \in DOMAIN s : e >= 3 /\ s[e] = "A" /\ s[e - 1] = "E" /\ IsDigit(s[e - 2])}

\* s with a space inserted behind every coded token.
RECURSIVE SpacedFrom(_, _)
SpacedFrom(s, i) ==
    IF i > Len(s) THEN << >>
    ELSE (IF i \in CodeEnds(s) THEN << s[i], " " >> ELSE << s[i] >>)
         \o SpacedFrom(s, i + 1)

SpacedAfterCodes(s) == SpacedFrom(s, 1)

\* C11 as stated: for an input with a comma or a newline the term list is
\* the first-seen deduplication of the trimmed, non-empty pieces of the
\* input between its commas and newlines.
C11_Original ==
    (parsed # << >> /\ HasSeparator(search_input)) =>
      IsFirstSeenDedup(parsed[1].unique_terms, TrimmedPieces(search_input))

\* C11 (amended): for an input with a comma or a newline the term list is
\* the first-seen deduplication of the trimmed, non-empty pieces, between
\* commas and newlines, of the input in which a space has been inserted
\* behind every coded token; no piece is cut at a space.
C11_SplitOnSeparatorsOnly ==
    (parsed # << >> /\ HasSeparator(search_input)) =>
      IsFirstSeenDedup(parsed[1].unique_terms,
                       TrimmedPieces(SpacedAfterCodes(search_input)))

\* A parsed input with a separator and no coded token that gives two terms,
\* one of which keeps an embedded space of the input.
C11_Witness ==
    /\ parsed # << >>
    /\ HasSeparator(search_input)
    /\ CodeEnds(search_input) = {}
    /\ Len(parsed[1].unique_terms) = 2
    /\ \E k \in DOMAIN parsed[1].unique_terms :
         \E i \in DOMAIN parsed[1].unique_terms[k] :
           parsed[1].unique_terms[k][i] = " "

\* ---------------------------------------------------------------- C12
\* The input is one or more coded tokens written one behind the other: it
\* ends in a coded token and every character is a digit or belongs to the EA
\* that closes a coded token.
IsCodeConcat(s) ==
  /\ Len(s) \in CodeEnds(s)
  /\ \A i \in DOMAIN s :
       \/ IsDigit(s[i])
       \/ i \in CodeEnds(s)
       \/ i + 1 \in CodeEnds(s)

NthCodeEnd(s, k) ==
  CHOOSE e \in CodeEnds(s) : Cardinality({d \in CodeEnds(s) : d < e}) = k - 1

\* The coded tokens of such an input, in order.
CodeTokens(s) ==
  [k \in 1..Cardinality(CodeEnds(s)) |->
     SubSeq(s, IF k = 1 THEN 1 ELSE NthCodeEnd(s, k - 1) + 1, NthCodeEnd(s, k))]

Chars12345EA67890EA ==
  << "1", "2", "3", "4", "5", "E", "A", "6", "7", "8", "9", "0", "E", "A" >>

\* C12: for an input that is a concatenation of coded tokens with nothing
\* between them the parser returns those tokens as separate terms, in order
\* and without repeats, and sets contains_ea_codes; 12345EA67890EA gives
\* the two terms 12345EA and 67890EA.
C12_AdjacentCodesSeparated ==
  /\ (parsed # << >> /\ IsCodeConcat(search_input)) =>
       /\ IsFirstSeenDedup(parsed[1].unique_terms, CodeTokens(search_input))
       /\ parsed[1].contains_ea_codes
  /\ parse_search_terms(Chars12345EA67890EA).unique_terms =
       << << "1", "2", "3", "4", "5", "E", "A" >>,
          << "6", "7", "8", "9", "0", "E", "A" >> >>
  /\ parse_search_terms(Chars12345EA67890EA).contains_ea_codes

\* Three adjacent coded tokens, two of them different and one a repeat, have
\* been parsed.
C12_Witness ==
  /\ parsed # << >>
  /\ IsCodeConcat(search_input)
  /\ Len(CodeTokens(search_input)) = 3
  /\ Len(parsed[1].unique_terms) = 2

\* ---------------------------------------------------------------- C13
\* C13: contains_ea_codes is true exactly when the input holds a coded
\* token, digits followed by EA; an input that holds the letters EA with no
\* digit in front of them yields false.
C13_FlagIffCodedToken ==
  parsed # << >> =>
    (parsed[1].contains_ea_codes <=> CodeEnds(search_input) # {})

\* ---------------------------------------------------------------- C14
\* The terms seen more than once, each listed once, in the order in which
\* their first repeat is met.
RECURSIVE RepeatedTerms(_, _, _)
RepeatedTerms(t, i, acc) ==
  IF i > Len(t) THEN acc
  ELSE IF /\ \E j \in 1..(i - 1) : t[j] = t[i]
          /\ t[i] \notin Range(acc)
       THEN RepeatedTerms(t, i + 1, Append(acc, t[i]))
  ELSE RepeatedTerms(t, i + 1, acc)

\* C14: besides the unique terms and the duplicate count the parser returns
\* the ordered sequence of the terms that were seen more than once; A,B,A
\* gives unique terms A, B, duplicate count 1 and duplicates A.
C14_ReturnsDuplicates ==
  parsed # << >> =>
    /\ "duplicates" \in DOMAIN parsed[1]
    /\ parsed[1].duplicates = RepeatedTerms(parsed[1].terms, 1, << >>)
    /\ parsed[1].duplicate_count =
         Len(parsed[1].terms) - Len(parsed[1].unique_terms)

\* ---------------------------------------------------------------- C15
IsTrimmed(t) == t # << >> /\ ~IsSpace(t[1]) /\ ~IsSpace(t[Len(t)])

IsBlank(s) == \A i \in DOMAIN s : IsSpace(s[i])

\* C15: every returned term is trimmed of surrounding whitespace and is not
\* empty, and an empty or whitespace-only input yields no term.
C15_TermsTrimmedNonEmpty ==
  parsed # << >> =>
    /\ \A k \in DOMAIN parsed[1].unique_terms :
         IsTrimmed(parsed[1].unique_terms[k])
    /\ IsBlank(search_input) => parsed[1].unique_terms = << >>

\* An input with whitespace on both sides of its text has been parsed into a
\* term.
C15_Witness ==
  /\ parsed # << >>
  /\ Len(search_input) >= 3
  /\ IsSpace(search_input[1])
  /\ IsSpace(search_input[Len(search_input)])
  /\ parsed[1].unique_terms # << >>

\* ---------------------------------------------------------------- C16
\* A space with text on both sides of it.
HasInternalSpace(s) ==
  \E i \in DOMAIN s :
    /\ s[i] = " "
    /\ \E j \in 1..(i - 1) : ~IsSpace(s[j])
    /\ \E j \in (i + 1)..Len(s) : ~IsSpace(s[j])

ShortSpacedInput(s) ==
  Len(s) <= LONG_INPUT /\ HasInternalSpace(s) /\ ~HasSeparator(s)

\* C16 as stated: an input of at most LONG_INPUT characters with internal
\* spaces and no comma or newline comes back as exactly one term, the
\* trimmed input.
C16_Original ==
  (parsed # << >> /\ ShortSpacedInput(search_input)) =>
    parsed[1].unique_terms = << Trimmed(search_input) >>

\* C16: an input of at most LONG_INPUT characters with internal spaces, no
\* comma or newline and no coded token (digits followed by EA) comes back as
\* exactly one term, the trimmed input.
C16_ShortSpacedInputIsOneTerm ==
  (/\ parsed # << >>
   /\ ShortSpacedInput(search_input)
   /\ CodeEnds(search_input) = {}) =>
    parsed[1].unique_terms = << Trimmed(search_input) >>

\* An input of exactly LONG_INPUT characters with an internal space and no
\* coded token has been parsed.
C16_Witness ==
  /\ parsed # << >>
  /\ Len(search_input) = LONG_INPUT
  /\ ShortSpacedInput(search_input)
  /\ CodeEnds(search_input) = {}
  /\ Len(parsed[1].unique_terms) = 1

\* ---------------------------------------------------------------- C17
\* C17: fetch_product_data never raises to its caller, and on a 200 reply
\* every failure to decode (a malformed fragment, too deep a nesting, an
\* identifier that cannot be located or matched) ends in a fragment, empty or
\* partly filled, never in None.
C17_DecodeFaultsYieldFragment ==
  fetched # << >> =>
    /\ ~fetched[1].raised
    /\ fetch_reply.kind = "ok" => ~fetched[1].isNone

\* ---------------------------------------------------------------- C18
\* C18: every fragment fetch_product_data returns is empty or holds only
\* records whose product identifier is not null, whichever strategy built
\* them.
C18_IdentifiersNonNull ==
  (fetched # << >> /\ ~fetched[1].isNone) =>
    \A i \in DOMAIN fetched[1].product :
      /\ fetched[1].product[i].key # None
      /\ fetched[1].product[i].rec.productId # None

\* ---------------------------------------------------------------- C19
Attempts == IF fetched = << >> THEN << >> ELSE fetched[1].log

\* C19 as stated: on a 200 reply the first decode attempted is a full decode
\* of the whole text, and the strategies are tried in the order full,
\* isolated fragment, field extraction.
C19_Original ==
  (fetched # << >> /\ fetch_reply.kind = "ok") =>
    /\ Attempts # << >>
    /\ Attempts[1].strategy = "full"
    /\ \A i \in DOMAIN Attempts :
         Attempts[i].strategy = "fragment" => \E j \in 1..(i - 1) :
           Attempts[j].strategy = "full" /\ Attempts[j].outcome # "ok"

\* C19: on a 200 reply no full decode of the text is attempted; for each
\* identifier the isolated fragment is decoded first, and the fields are
\* extracted only, and always, right after that decode has failed on a
\* malformed fragment.
C19_FragmentBeforeFields ==
  (fetched # << >> /\ fetch_reply.kind = "ok") =>
    \A i \in DOMAIN Attempts :
      /\ Attempts[i].strategy # "full"
      /\ Attempts[i].strategy = "fields" =>
           /\ i > 1
           /\ Attempts[i - 1] =
                Attempt(Attempts[i].id, "fragment", "JSONDecodeError")
      /\ Attempts[i] = Attempt(Attempts[i].id, "fragment", "JSONDecodeError") =>
           /\ i < Len(Attempts)
           /\ Attempts[i + 1] = Attempt(Attempts[i].id, "fields", "ok")

\* A fragment failed to decode as malformed and its fields were extracted.
C19_Witness ==
  /\ fetched # << >>
  /\ fetch_reply.kind = "ok"
  /\ \E i \in DOMAIN Attempts : Attempts[i].strategy = "fields"
  /\ ~fetched[1].isNone
  /\ fetched[1].product # << >>

\* ---------------------------------------------------------------- C20
NothingDecoded ==
  \A i \in DOMAIN Attempts :
    Attempts[i].strategy \in {"fragment", "fields"} => Attempts[i].outcome # "ok"

FragmentKeys == {fetched[1].product[i].key : i \in DOMAIN fetched[1].product}

\* C20: when the text of a 200 reply holds at least one identifier and no
\* fragment could be decoded by either fallback, the fragment returned holds
\* one placeholder per identifier, with that identifier and a generic name,
\* so that the term is found.
C20_PlaceholderPerIdentifier ==
  (/\ fetched # << >>
   /\ fetch_reply.kind = "ok"
   /\ product_ids(fetch_reply.text) # << >>
   /\ NothingDecoded) =>
    /\ ~fetched[1].isNone
    /\ FragmentKeys = {CleanId(p) : p \in Range(product_ids(fetch_reply.text))}
    /\ \A i \in DOMAIN fetched[1].product :
         /\ fetched[1].product[i].rec.productId = fetched[1].product[i].key
         /\ fetched[1].product[i].rec.name =
              "Product " \o fetched[1].product[i].key
    /\ process_term(SearchTerm, "all",
                    [kind |-> "records", n |-> Len(fetched[1].product)]).info.found

\* ---------------------------------------------------------------- C25
Occurrences(tok) == Cardinality({i \in DOMAIN stream : stream[i] = tok})

\* C25: in the streaming path a progress fragment is written at every batch
\* boundary: the outcomes array is closed, a progress object with status
\* processing follows, and a new outcomes array is opened; so a finished
\* stream of several batches holds several array openings.
C25_ProgressAtBatchBoundaries ==
  (pc = "stream_done" /\ total_batches >= 2) =>
    /\ Occurrences(LBRACK) >= total_batches
    /\ Occurrences(RBRACK) >= total_batches
    /\ Occurrences(Member("status", "processing")) >= total_batches

\* ---------------------------------------------------------------- C26
Collecting(t) == tstate[t] = "finished" /\ tstate'[t] = "collected"

\* C26: at completion processed equals the number of terms dispatched,
\* whatever their outcomes, and found is the sum over the terms of the
\* number of records of the term's upstream fragment, before any capping:
\* collecting a term adds the size of its fragment to the found total.
C26_TotalsCountRecords ==
  /\ [](pc = "stream_done" => processed_count = Len(individual_terms))
  /\ [][\A t \in Terms : (Collecting(t) /\ cause[t].kind = "records") =>
          IF pc = "collect"
          THEN batch_total_found' = batch_total_found + cause[t].n
          ELSE total_found' = total_found + cause[t].n]_vars

\* ---------------------------------------------------------------- C27
RequiredMessages ==
  {"No request data provided", "Search term is required", "Session ID is required"}

\* C27: a request without the search term or without the credential fails as
\* a whole with an error response, and nothing has been done for it: no
\* region lookup, no parsing, no executor, no fetch.
C27_MissingFieldFailsFirst ==
  (pc # "validate" /\ response.error \in RequiredMessages) =>
    /\ pc = "error"
    /\ response.status = "error"
    /\ response.code = 400
    /\ region_info = None
    /\ individual_terms = << >>
    /\ tstate = << >>
    /\ pools = 0
    /\ stream = << >>
    /\ products = << >>

\* A request without a session id has been refused.
C27_Witness ==
  /\ pc = "error"
  /\ response = ErrorResponse(400, "Session ID is required")

\* ---------------------------------------------------------------- C28
\* C28: when the region lookup fails (a status other than 200, a timeout, a
\* transport error) or yields no region id, the request fails as a whole and
\* no term is fetched.
C28_RegionFailureFailsRequest ==
  (pc \notin {"validate", "region"} /\ region_info \in {None, "unknown"}) =>
    /\ pc = "error"
    /\ pools = 0
    /\ tstate = << >>

\* ---------------------------------------------------------------- C29
Rank(s) ==
  CASE s = "idle" -> 0
    [] s = "queued" -> 1
    [] s = "running" -> 2
    [] s = "finished" -> 3
    [] s = "collected" -> 4

\* C29: within one request each parsed term is fetched exactly once: a term
\* goes through submission, its one run in a worker and its collection in
\* that order and never goes back (no retry, no second worker), and when the
\* request has finished every term has made that run.
C29_OneFetchPerTerm ==
  /\ [][\A t \in DOMAIN tstate \cap DOMAIN tstate' :
          /\ Rank(tstate'[t]) >= Rank(tstate[t])
          /\ Rank(tstate'[t]) <= Rank(tstate[t]) + 1]_vars
  /\ [](pc \in {"stream_done", "small_done"} =>
          \A t \in Terms : tstate[t] = "collected")

\* A streamed request of two batches has finished, with a term whose fetch
\* or resolution failed among its outcomes.
C29_Witness ==
  /\ pc = "stream_done"
  /\ Len(batches) = 2
  /\ \A t \in Terms : tstate[t] = "collected"
  /\ processed_count = Len(individual_terms)
  /\ total_found < Len(individual_terms)

\* ---------------------------------------------------------------- C21
Resolved == resolved # << >>
RawFragment == fetched[1].product
Outcome == resolved[1].result.info

\* C21: when the fragment fetched for a term is empty the term's outcome is
\* NotFound, carries the term and the message 'not found, may not be
\* published yet or could be a typo', and adds 0 to the found total.
C21_EmptyFragmentIsNotFound ==
  (Resolved /\ ~fetched[1].isNone /\ RawFragment = << >>) =>
    /\ ~Outcome.found
    /\ Outcome.searchTerm = SearchTerm
    /\ Outcome.notFoundMessage =
         "The article \"term\" was not found. It may not be published yet or could be a typo."
    /\ resolved[1].result.total = 0

\* An empty fragment, returned for a text whose identifier sat in too deep a
\* nesting, has been resolved under a limit that is no integer.
C21_Witness ==
  /\ Resolved
  /\ ~fetched[1].isNone
  /\ RawFragment = << >>
  /\ fetched[1].log # << >>
  /\ resolved[1].limit = "abc"

\* ---------------------------------------------------------------- C22
\* C22: when the fragment fetched for a term is not empty, resolution yields
\* exactly one Found outcome, built from the first record in the fragment's
\* key order, for the limit 'all' and for every integer limit.
C22_FirstRecordFound ==
  (/\ Resolved
   /\ ~fetched[1].isNone
   /\ RawFragment # << >>
   /\ resolved[1].limit \in {"all"} \cup IntLimits) =>
    /\ Outcome.found
    /\ Outcome.searchTerm = SearchTerm
    /\ Outcome.productId = Get(RawFragment[1].rec.productId)
    /\ Outcome.name = Get(RawFragment[1].rec.name)

\* ---------------------------------------------------------------- C23
FoundOutcomes == IF Outcome.found THEN 1 ELSE 0

\* C23: in broad search mode a term whose fragment holds k records yields
\* min(k, limit, 50) Found outcomes, min(k, 50) under the limit 'all', each
\* carrying the search term.
C23_BroadModeOutcomes ==
  (/\ Resolved
   /\ resolved[1].search_mode = "broad"
   /\ ~fetched[1].isNone
   /\ resolved[1].limit \in {"all", "0", "1", "2"}) =>
    /\ FoundOutcomes =
         IF resolved[1].limit = "all"
         THEN Min(Len(RawFragment), 50)
         ELSE Min(Min(Len(RawFragment), LimitInt(resolved[1].limit)), 50)
    /\ Outcome.found => Outcome.searchTerm = SearchTerm

\* ---------------------------------------------------------------- C24
\* d is an integer nearest to num / den, den > 0.
IsNearest(d, num, den) == 2 * (d * den - num) <= den /\ 2 * (num - d * den) <= den

\* C24: a Found outcome carries discountPercentage exactly when the current
\* and the original price both are numbers and the original exceeds the
\* current one; its value is then 100 * (original - current) / original
\* rounded to the nearest integer: 80 and 100 give 20.
C24_DiscountWhenCheaper ==
  /\ (priced # << >> /\ ~priced[1].raised) =>
       /\ priced[1].hasDiscount <=>
            /\ price_info.current.kind = "num"
            /\ price_info.original.kind = "num"
            /\ price_info.original.n > price_info.current.n
       /\ priced[1].hasDiscount =>
            IsNearest(priced[1].discountPercentage,
                      100 * (price_info.original.n - price_info.current.n),
                      price_info.original.n)
  /\ PriceFields([current |-> Amount("num", 80),
                  original |-> Amount("num", 100)]).hasDiscount
  /\ PriceFields([current |-> Amount("num", 80),
                  original |-> Amount("num", 100)]).discountPercentage = 20

\* The prices 1 and 3 have given the discount 67.
C24_Witness ==
  /\ priced # << >>
  /\ price_info = [current |-> Amount("num", 1), original |-> Amount("num", 3)]
  /\ priced[1].hasDiscount
  /\ priced[1].discountPercentage = 67

\* ---------------------------------------------------------------- C30
\* The items first..last of the text hold as many opening as closing braces.
Balanced(text, first, last) ==
  Cardinality({i \in first..last : text[i] = LB})
    = Cardinality({i \in first..last : text[i] = RB})

\* C30: for each identifier found in the text, the substring the brace scan
\* isolates starts at the nearest opening brace before the identifier's
\* occurrence, has balanced braces and encloses that occurrence; the scan
\* gives no substring when the braces never balance.
C30_FragmentEnclosesIdentifier ==
  (fetched # << >> /\ fetch_reply.kind = "ok") =>
    \A k \in DOMAIN product_ids(fetch_reply.text) :
      LET text == fetch_reply.text
          m == SearchId(text, product_ids(text)[k])
          obj_start == ObjStart(text, m.pos)
          obj_end == ObjEnd(text, obj_start + 1, 1)
      IN (~m.error /\ m.pos > 0 /\ obj_start > 0) =>
           /\ text[obj_start] = LB
           /\ \A i \in (obj_start + 1)..(m.pos - 1) : text[i] # LB
           /\ obj_end > 0 =>
                /\ Balanced(text, obj_start, obj_end)
                /\ obj_start < m.pos /\ m.pos < obj_end
           /\ obj_end = 0 =>
                \A e \in obj_start..Len(text) : ~Balanced(text, obj_start, e)

\* --------------------------------------------- the outcomes array's commas
\* The position of the token that opens the outcomes array.
ArrayOpening == CHOOSE p \in DOMAIN stream : stream[p].k = "LBRACK"

\* The tokens written after the array was opened, up to its closing.
ArrayTokens ==
    LET tail == SubSeq(stream, ArrayOpening + 1, Len(stream))
        closings == {i \in DOMAIN tail : tail[i].k = "RBRACK"}
    IN IF closings = {} THEN tail
       ELSE SubSeq(tail, 1, (CHOOSE i \in closings : \A j \in closings : i <= j) - 1)

Count(toks, k) == Cardinality({i \in DOMAIN toks : toks[i].k = k})

\* C31: once the outcomes array is open, after k emitted elements exactly
\* max(k - 1, 0) delimiters have been written in it; no delimiter directly
\* follows the array opening and none directly precedes the array closing.
C31_DelimiterBeforeAllButFirst ==
    Streaming =>
      LET elems == ArrayTokens
          k == Count(elems, "OBJ")
      IN /\ Count(elems, "COMMA") = (IF k >= 1 THEN k - 1 ELSE 0)
         /\ elems # << >> => elems[1].k # "COMMA" /\ elems[Len(elems)].k # "COMMA"
         /\ first_product <=> (k = 0)

\* The array of a finished stream holds an element of every term, the first
\* of them a failed term's entry written by the handler's except clause.
C31_Witness ==
    /\ pc = "stream_done"
    /\ Count(ArrayTokens, "OBJ") = MaxTerms
    /\ Count(ArrayTokens, "COMMA") = MaxTerms - 1
    /\ ~ArrayTokens[1].val.found

\* ------------------------------------------- who owns the stream's state
\* The structural state of generate_response.
structure == << stream, first_product, processed_count, batch_total_found,
                total_found, batch_products, batch_count >>

\* A step of a worker thread: a work item is taken, or process_term returns.
WorkerStep ==
    \E t \in Terms :
      \/ tstate[t] = "queued" /\ tstate'[t] = "running"
      \/ tstate[t] = "running" /\ tstate'[t] = "finished"

\* What a running worker may return does not depend on the structural state.
WorkerReturnsAnything ==
    \A t \in InState("running") :
      \A c \in Causes :
        ENABLED (/\ tstate' = [tstate EXCEPT ![t] = "finished"]
                 /\ cause' = [cause EXCEPT ![t] = c]
                 /\ [Next]_vars)

\* C32: on the streaming path a step of a worker thread leaves the
\* first-element flag, the counters and the stream as they are, so that they
\* change only in steps of the thread that iterates the batches; and what a
\* worker returns is not constrained by that state.
C32_StructureOwnedByDriver ==
    /\ [][(Streaming /\ WorkerStep) => (pc' = pc /\ structure' = structure)]_vars
    /\ [](Streaming => WorkerReturnsAnything)

\* A worker runs while the driver has already written an element of the
\* same batch.
C32_Witness ==
    /\ pc = "collect"
    /\ ~first_product
    /\ processed_count >= 1
    /\ \E t, u \in Futures : tstate[t] = "running" /\ tstate[u] = "collected"

\* ------------------------------------------------ what the producer holds
\* The terms an outcome of which the generator still references: through
\* batch_products or products, or through a Future of the dict bound to
\* futures, which keeps the value process_term returned.
HeldTerms ==
    {batch_products[i].searchTerm : i \in DOMAIN batch_products}
    \cup {products[i].searchTerm : i \in DOMAIN products}
    \cup future_results

\* C33: on the streaming path the outcomes the producer holds are never more
\* than BATCH_SIZE, and it holds none once a batch boundary has been passed.
C33_AtMostOneBatchHeld ==
    Streaming =>
      /\ Cardinality(HeldTerms) <= BATCH_SIZE
      /\ pc \in {"batch_loop", "stream_done"} => HeldTerms = {}

\* ------------------------------------------------- how a request may end
\* The request's fields were accepted and the region lookup gave a region.
PassedChecks == region_info # None

\* C34: a request that passed input validation and region resolution ends
\* with status "completed" and without a whole-operation error, also when
\* its input parsed to zero terms, and then with an empty outcome list.
C34_PassedChecksEndCompleted ==
    (RequestOver /\ PassedChecks) =>
      /\ pc # "error"
      /\ response.status # "error"
      /\ pc = "small_done" =>
           /\ response.status = "completed"
           /\ individual_terms = << >> => products = << >>
      /\ pc = "stream_done" => JsonValue(stream, "status") = "completed"

\* ------------------------------------------------ the keys of the envelope
\* The positions at which a key of the top-level object is written.
EnvelopeKeyPositions == {i \in DOMAIN stream : stream[i].k \in {"MEM", "KEY"}}

\* C35: every key of the streamed envelope is written at most once over the
\* whole stream, and the completed document gives the status key one value.
C35_EnvelopeKeysOnce ==
    /\ \A i, j \in EnvelopeKeyPositions :
         stream[i].key = stream[j].key => i = j
    /\ pc = "stream_done" =>
         Cardinality({stream[i].val : i \in MemberPositions(stream, "status")}) = 1

\* ------------------------------------------- records that were decoded
\* The identifiers whose own fragment was decoded, by either strategy.
DecodedIds ==
    {Attempts[i].id : i \in {j \in DOMAIN Attempts :
                               /\ Attempts[j].strategy \in {"fragment", "fields"}
                               /\ Attempts[j].outcome = "ok"}}

\* C36: on a 200 reply the fragment returned holds a record for every
\* identifier whose own fragment was decoded, whatever happened to the
\* fragments of the other identifiers of the response.
C36_DecodedRecordsKept ==
    (fetched # << >> /\ fetch_reply.kind = "ok") =>
      \A id \in DecodedIds :
        /\ ~fetched[1].isNone
        /\ fetched[1].product # << >>
        /\ ~IsRetailerKey(id) => id \in FragmentKeys

\* ------------------------------------------ the small path's two lists
NotFoundProducts == {i \in DOMAIN products : ~products[i].found}

\* C37: in the small-input response not_found_terms holds exactly the terms
\* whose outcome has found = false, each once, and products holds exactly one
\* entry per parsed term; while the futures are collected the two lists
\* agree in the same way on the terms collected so far.
C37_NotFoundTermsMatchProducts ==
    pc \in {"small_collect", "small_done"} =>
      /\ Range(not_found_terms) = {products[i].searchTerm : i \in NotFoundProducts}
      /\ Len(not_found_terms) = Cardinality(NotFoundProducts)
      /\ \A i, j \in DOMAIN not_found_terms :
           not_found_terms[i] = not_found_terms[j] => i = j
      /\ {products[i].searchTerm : i \in DOMAIN products}
           = {individual_terms[t] : t \in InState("collected")}
      /\ Len(products) = Cardinality(InState("collected"))
      /\ pc = "small_done" =>
           /\ Len(products) = Len(individual_terms)
           /\ \A t \in Range(individual_terms) :
                Cardinality({i \in DOMAIN products : products[i].searchTerm = t}) = 1

\* A small response with a found term, a term that was not found and a term
\* whose future raised, the not-found terms not in input order.
C37_Witness ==
    /\ pc = "small_done"
    /\ Len(products) = STREAM_THRESHOLD
    /\ Len(not_found_terms) = 2
    /\ not_found_terms[1] > not_found_terms[2]
    /\ \E i, j \in NotFoundProducts :
         products[i].msg = "error" /\ products[j].msg = "typo"
    /\ \E i \in DOMAIN products : products[i].found

====
